---- MODULE Spec2Model ----
(***************************************************************************)
(* A model of src/utils/utils.py: the tabular pipeline (stream_traces,     *)
(* with its trace-ID cache ".traceIDs.pickle"), the span-tree builder      *)
(* (generate_trace_json) and its driver (process_all_traces).              *)
(*                                                                         *)
(*   Spec      the tabular pipeline: runs of stream_traces against one     *)
(*             output target, one step per trace of the input, with the    *)
(*             cache file deleted or corrupted between runs.               *)
(*   TreeSpec  generate_trace_json applied to one trace.                   *)
(*   ProcSpec  process_all_traces over one document, one step per trace.   *)
(***************************************************************************)
EXTENDS Integers, Sequences, FiniteSets, TLC

VARIABLES
    \* ---- files of the output directory
    ledgerFile,     \* <dir>/.traceIDs.pickle: [state, ids]
    outFile,        \* the CSV at `out`: the sequence of its rows
    headerFile,     \* <dir>/header.csv: "absent" or "written"
    \* ---- locals of the running stream_traces call
    pc,             \* "idle" | "loop" | "done" | "aborted"
    input,          \* the document f: the items under data[] read so far
    growing,        \* whether f may hold items beyond those read so far
    pos,            \* index of the item the loop is at
    traceIDs,       \* the in-memory set of line 58
    operationName,  \* the local of line 96 (it outlives a loop iteration)
    hashSeed,       \* the interpreter's string-hash seed of this run
    \* ---- history, read by the properties only
    ledgerAtStart,  \* ledgerFile when the run started
    persists,       \* how many times this run has written the cache
    relation,       \* "fresh" | "rerun" | "coldRerun": this run vs the previous
    prevCount,      \* rows of outFile when the previous run completed
    prevOut,        \* outFile when the previous run completed (kept for a rerun)
    ledgerEvent,    \* what happened to the cache file since the last run started
    \* ---- generate_trace_json
    tpc,            \* "off" | "call" | "returned" | "raised"
    trace,          \* the argument
    result,         \* what the call returned or raised
    \* ---- process_all_traces
    ppc,            \* "off" | "loop" | "done" | "raised"
    docs,           \* the items under data[] of input_file
    dpos,           \* index of the item the loop is at
    artifacts,      \* output_dir: the content of <traceID>.json, per traceID
    written,        \* history: the indices of the items whose file was written
    raisedBy        \* the exception that ended the run

pipeVars == <<ledgerFile, outFile, headerFile, pc, input, growing, pos, traceIDs,
              operationName, hashSeed, ledgerAtStart, persists, relation,
              prevCount, prevOut, ledgerEvent>>
procVars == <<ppc, docs, dpos, artifacts, written, raisedBy>>
treeVars == <<tpc, trace, result, procVars>>
vars == <<pipeVars, treeVars>>

-----------------------------------------------------------------------------
(* Bounds *)

\* The longest input document, in items.
MaxInput == 3

-----------------------------------------------------------------------------
(* Small helpers *)

SetMax(S) == CHOOSE x \in S : \A y \in S : y <= x
SetMin(S) == CHOOSE x \in S : \A y \in S : x <= y

SeqsUpTo(S, n) == UNION {[1..k -> S] : k \in 0..n}

\* Python truthiness of a tag value (the model's tag values are booleans).
Truthy(v) == v = TRUE

-----------------------------------------------------------------------------
(* The input of stream_traces *)

TraceIds == {"t1", "t2"}

\* The traceID of an item that has no "traceID" key.
NoTraceID == "<none>"

Tag(k, v) == [key |-> k, value |-> v]

PSpan(start, dur, op, tags) ==
    [startTime |-> start, duration |-> dur, operationName |-> op, tags |-> tags]

\* The span lists of the input traces: no span; one span without tags; an
\* error span followed by a span whose error tag is false (and which starts
\* earlier); a span with a false and then a true error tag; a span with
\* another tag followed by an error span.
SpanLists ==
    { <<>>,
      <<PSpan(0, 2, "opA", <<>>)>>,
      <<PSpan(1, 1, "opB", <<Tag("error", TRUE)>>),
        PSpan(0, 1, "opA", <<Tag("error", FALSE)>>)>>,
      <<PSpan(0, 1, "opA", <<Tag("error", FALSE), Tag("error", TRUE)>>)>>,
      <<PSpan(0, 1, "opA", <<Tag("http.method", TRUE)>>),
        PSpan(1, 2, "opB", <<Tag("error", TRUE)>>)>> }

Processes == [p1 |-> [serviceName |-> "svcA"], p2 |-> [serviceName |-> "svcB"]]

MalformedItem == [traceID |-> NoTraceID, spans |-> <<>>, processes |-> Processes]

Traces ==
    {[traceID |-> id, spans |-> sl, processes |-> Processes] :
        id \in TraceIds, sl \in SpanLists}
    \cup {MalformedItem}

-----------------------------------------------------------------------------
(* stream_traces: the cache, the sink and the summary of one trace *)

AbsentFile == [state |-> "absent", ids |-> {}]
CorruptFile == [state |-> "corrupt", ids |-> {}]
PickleFile(ids) == [state |-> "ok", ids |-> ids]

\* LoadLedger with the unpickled set dropped: every run starts cold.
LoadNothing(file) == {}

\* Lines 58-65: the set starts empty and is replaced by the unpickled one;
\* any failure of open or pickle.load is swallowed by the bare except.
LoadLedger(file) == IF file.state = "ok" THEN file.ids ELSE {}

\* Lines 53-56, 74: the output is opened in mode 'wt' (gzip) or 'w', which
\* empties an existing file; `old` is what the file held.
OpenF(old) == << >>

\* IsNew with the test gone: every trace is taken as new.
IsNewAlways(id, ids) == TRUE

\* Line 83: the membership test that gates a trace.
IsNew(id, ids) == id \notin ids

\* Accept with line 84 forgotten.
AcceptForgets(id, ids) == ids

\* Line 84.
Accept(id, ids) == ids \cup {id}

\* Line 90 and 91: max and min of a list, which raise ValueError on [].
EndTrace(spans) == SetMax({spans[i].startTime + spans[i].duration : i \in 1..Len(spans)})
StartTrace(spans) == SetMin({spans[i].startTime : i \in 1..Len(spans)})

\* Lines 97-100: the first tag of the list whose key is "error" (0: none).
FirstErrorTag(tags) ==
    IF \E k \in 1..Len(tags) : tags[k].key = "error"
    THEN SetMin({k \in 1..Len(tags) : tags[k].key = "error"})
    ELSE 0

\* Lines 93-100: hasErrors starts False; each span that has an "error" tag
\* assigns the value of its first such tag to it.
RECURSIVE HasErrorsFrom(_, _, _)
HasErrorsFrom(spans, si, acc) ==
    IF si > Len(spans) THEN acc
    ELSE LET k == FirstErrorTag(spans[si].tags)
         IN  HasErrorsFrom(spans, si + 1,
                           IF k = 0 THEN acc ELSE spans[si].tags[k].value)

HasErrors(spans) == HasErrorsFrom(spans, 1, FALSE)

\* OperationNameOf as the name of the span that starts first (the root the
\* tree builder would pick).
OperationOfEarliest(spans, carried) ==
    IF Len(spans) >= 1
    THEN spans[SetMin({i \in 1..Len(spans) :
                 \A j \in 1..Len(spans) : spans[i].startTime <= spans[j].startTime})].operationName
    ELSE carried

\* Lines 94-96: operationName is assigned at si == 0 only; with no span the
\* local keeps the value an earlier trace left in it.
OperationNameOf(spans, carried) ==
    IF Len(spans) >= 1 THEN spans[1].operationName ELSE carried

\* Lines 101-103: the service name of every process, in the mapping's order.
ServiceOrder == <<"svcA", "svcB">>
ServiceNames(t) == {t.processes[p].serviceName : p \in DOMAIN t.processes}

\* Line 110: ';'.join(set(processes)). A set of strings is iterated in the
\* order of the strings' hashes, which the interpreter seeds anew at every
\* start: seed 1 gives one order, seed 2 the other.
HashSeeds == {1, 2}
Reverse(s) == [i \in 1..Len(s) |-> s[Len(s) + 1 - i]]
JoinSet(S, seed) ==
    LET inOrder == SelectSeq(ServiceOrder, LAMBDA x : x \in S)
    IN  IF seed = 1 THEN inOrder ELSE Reverse(inOrder)

\* Lines 104-110: the row. duration-ms is traceDuration/1000, kept as the
\* fraction it is.
Row(t, carried, seed) ==
    [traceID   |-> t.traceID,
     durationMs |-> [num |-> EndTrace(t.spans) - StartTrace(t.spans), den |-> 1000],
     startTime |-> StartTrace(t.spans),
     endTime   |-> EndTrace(t.spans),
     rpcErrors |-> HasErrors(t.spans),
     operation |-> OperationNameOf(t.spans, carried),
     processes |-> JoinSet(ServiceNames(t), seed)]

NoOperation == "<unbound>"

Between == pc \in {"idle", "done", "aborted"}

\* Lines 46-80: a call of stream_traces(f, out) starts: the cache is loaded,
\* the output is opened (and so emptied), the loop is about to start. The
\* document f is either the one the previous call read (replay) or a new
\* one, whose items the model chooses as the loop reads them.
StartRun(replay, seed) ==
    /\ Between
    /\ replay => pc # "idle"
    /\ input' = IF replay THEN input ELSE << >>
    /\ growing' = ~replay
    /\ hashSeed' = seed
    /\ traceIDs' = LoadLedger(ledgerFile)
    /\ outFile' = OpenF(outFile)
    /\ pos' = 1
    /\ operationName' = NoOperation
    /\ pc' = "loop"
    /\ ledgerAtStart' = ledgerFile
    /\ persists' = 0
    /\ relation' = IF pc = "done" /\ replay
                   THEN (IF ledgerEvent = "none" THEN "rerun"
                         ELSE IF ledgerEvent = "deleted" THEN "coldRerun"
                         ELSE "fresh")
                   ELSE "fresh"
    /\ prevCount' = IF pc = "done" /\ replay /\ ledgerEvent \in {"none", "deleted"}
                    THEN Len(outFile) ELSE 0
    /\ prevOut' = IF pc = "done" /\ replay /\ ledgerEvent \in {"none", "deleted"}
                  THEN outFile ELSE << >>
    /\ ledgerEvent' = "none"
    /\ UNCHANGED <<ledgerFile, headerFile, treeVars>>

\* Lines 77, 81: ijson.items yields the next item t of data[]: the one at pos
\* of a replayed document, or a further item of a new one.
Yields(t) ==
    /\ pc = "loop"
    /\ IF pos <= Len(input)
       THEN t = input[pos] /\ input' = input
       ELSE growing /\ Len(input) < MaxInput /\ input' = Append(input, t)

\* Line 83, false: the trace is in the set and the loop goes on.
SkipTrace ==
    \E t \in Traces :
        /\ Yields(t)
        /\ t.traceID # NoTraceID
        /\ ~IsNew(t.traceID, traceIDs)
        /\ pos' = pos + 1
        /\ UNCHANGED <<ledgerFile, outFile, headerFile, pc, growing, traceIDs,
                       operationName, hashSeed, ledgerAtStart, persists, relation,
                       prevCount, prevOut, ledgerEvent, treeVars>>

\* Lines 83-111: the trace is new and has spans: it is added to the set,
\* summarized, and its row is written.
WriteRow ==
    \E t \in Traces :
        /\ Yields(t)
        /\ t.traceID # NoTraceID
        /\ IsNew(t.traceID, traceIDs)
        /\ Len(t.spans) > 0
        /\ traceIDs' = Accept(t.traceID, traceIDs)
        /\ operationName' = OperationNameOf(t.spans, operationName)
        /\ outFile' = Append(outFile, Row(t, operationName, hashSeed))
        /\ pos' = pos + 1
        /\ UNCHANGED <<ledgerFile, headerFile, pc, growing, hashSeed, ledgerAtStart,
                       persists, relation, prevCount, prevOut, ledgerEvent, treeVars>>

\* AbortEmptyTrace with the cache written on the way out (as a finally
\* clause around the loop would do).
AbortPersisting ==
    \E t \in Traces :
        /\ Yields(t)
        /\ t.traceID # NoTraceID
        /\ IsNew(t.traceID, traceIDs)
        /\ Len(t.spans) = 0
        /\ traceIDs' = Accept(t.traceID, traceIDs)
        /\ ledgerFile' = PickleFile(traceIDs')
        /\ persists' = persists + 1
        /\ pc' = "aborted"
        /\ UNCHANGED <<outFile, headerFile, growing, pos, operationName,
                       hashSeed, ledgerAtStart, relation, prevCount, prevOut,
                       ledgerEvent, treeVars>>

\* Lines 83-90: the trace is new and has no span: it is added to the set and
\* max([]) raises ValueError, which nothing catches. The with statement
\* closes the output (the rows written stay); lines 114-120 do not run.
AbortEmptyTrace ==
    \E t \in Traces :
        /\ Yields(t)
        /\ t.traceID # NoTraceID
        /\ IsNew(t.traceID, traceIDs)
        /\ Len(t.spans) = 0
        /\ traceIDs' = Accept(t.traceID, traceIDs)
        /\ pc' = "aborted"
        /\ UNCHANGED <<ledgerFile, outFile, headerFile, growing, pos, operationName,
                       hashSeed, ledgerAtStart, persists, relation, prevCount, prevOut,
                       ledgerEvent, treeVars>>

\* Line 83: t['traceID'] raises KeyError on an item without that key.
AbortMalformed ==
    \E t \in Traces :
        /\ Yields(t)
        /\ t.traceID = NoTraceID
        /\ pc' = "aborted"
        /\ UNCHANGED <<ledgerFile, outFile, headerFile, growing, pos, traceIDs,
                       operationName, hashSeed, ledgerAtStart, persists, relation,
                       prevCount, prevOut, ledgerEvent, treeVars>>

\* Finish with only the traceIDs of the rows of this run pickled.
FinishRowsOnly ==
    /\ pc = "loop"
    /\ pos > Len(input)
    /\ ledgerFile' = PickleFile({outFile[i].traceID : i \in 1..Len(outFile)})
    /\ persists' = persists + 1
    /\ headerFile' = "written"
    /\ pc' = "done"
    /\ UNCHANGED <<outFile, input, growing, pos, traceIDs, operationName, hashSeed,
                   ledgerAtStart, relation, prevCount, prevOut, ledgerEvent, treeVars>>

\* Lines 114-120: the input is exhausted: the set is pickled over the cache
\* file and the header file is written.
Finish ==
    /\ pc = "loop"
    /\ pos > Len(input)
    /\ ledgerFile' = PickleFile(traceIDs)
    /\ persists' = persists + 1
    /\ headerFile' = "written"
    /\ pc' = "done"
    /\ UNCHANGED <<outFile, input, growing, pos, traceIDs, operationName, hashSeed,
                   ledgerAtStart, relation, prevCount, prevOut, ledgerEvent, treeVars>>

\* The environment, between two runs: the cache file is removed.
DeleteLedger ==
    /\ Between
    /\ ledgerFile.state # "absent"
    /\ ledgerFile' = AbsentFile
    /\ ledgerEvent' = "deleted"
    /\ UNCHANGED <<outFile, headerFile, pc, input, growing, pos, traceIDs,
                   operationName, hashSeed, ledgerAtStart, persists, relation,
                   prevCount, prevOut, treeVars>>

\* The environment, between two runs: the cache file is overwritten with
\* bytes that do not unpickle (or made unreadable).
CorruptLedger ==
    /\ Between
    /\ ledgerFile.state # "corrupt"
    /\ ledgerFile' = CorruptFile
    /\ ledgerEvent' = "corrupted"
    /\ UNCHANGED <<outFile, headerFile, pc, input, growing, pos, traceIDs,
                   operationName, hashSeed, ledgerAtStart, persists, relation,
                   prevCount, prevOut, treeVars>>

\* The state before any call of stream_traces: an empty output directory.
PipeInit ==
    /\ ledgerFile = AbsentFile
    /\ outFile = << >>
    /\ headerFile = "absent"
    /\ pc = "idle"
    /\ input = << >>
    /\ growing = FALSE
    /\ pos = 1
    /\ traceIDs = {}
    /\ operationName = NoOperation
    /\ hashSeed = 1
    /\ ledgerAtStart = AbsentFile
    /\ persists = 0
    /\ relation = "fresh"
    /\ prevCount = 0
    /\ prevOut = << >>
    /\ ledgerEvent = "none"

Next ==
    \/ \E replay \in BOOLEAN, seed \in HashSeeds : StartRun(replay, seed)
    \/ SkipTrace
    \/ WriteRow
    \/ AbortEmptyTrace
    \/ AbortMalformed
    \/ Finish
    \/ DeleteLedger
    \/ CorruptLedger

-----------------------------------------------------------------------------
(* generate_trace_json *)

\* The most spans a trace holds, and the most references its spans hold
\* together.
MaxSpans == 3
MaxRefs == 2

Times == {0, 1, 2}

\* The i-th span of a trace has spanID i; 0 is a spanID no span has.
NoSpan == 0

RefChoices(n) ==
    {[refType |-> "CHILD_OF", spanID |-> k] : k \in 0..n}
    \cup {[refType |-> "FOLLOWS_FROM", spanID |-> 1]}

\* The reference lists of spans 1..k of a trace of n spans that hold at most
\* b references together.
RECURSIVE RefAssign(_, _, _)
RefAssign(n, k, b) ==
    IF k = 0 THEN {<< >>}
    ELSE UNION {{Append(a, l) : a \in RefAssign(n, k - 1, b - Len(l))} :
                    l \in SeqsUpTo(RefChoices(n), b)}

\* The process mapping with both processes, and the one that lacks "p2".
ProcessMaps == {Processes, [p \in {"p1"} |-> [serviceName |-> "svcA"]]}

ProcessIdOf(i) == IF i = 1 THEN "p1" ELSE "p2"

TSpan(i, start, refs) ==
    [spanID |-> i, operationName |-> "op", startTime |-> start, duration |-> 1,
     processID |-> ProcessIdOf(i), tags |-> << >>, references |-> refs]

\* A trace of n spans with the given start times, reference lists and
\* process mapping.
TreeTrace(n, times, refs, procs) ==
    [traceID |-> "t1",
     spans |-> [i \in 1..n |-> TSpan(i, times[i], refs[i])],
     processes |-> procs]

SpanIdsOf(t) == {t.spans[i].spanID : i \in 1..Len(t.spans)}

\* Lines 132-142: the node of a span (KeyError when the span's processID is
\* not in the trace's processes).
CreateSpanDict(t, span) ==
    [spanID    |-> span.spanID,
     operation |-> span.operationName,
     service   |-> t.processes[span.processID].serviceName,
     startTime |-> span.startTime,
     endTime   |-> span.startTime + span.duration,
     duration  |-> span.duration,
     error     |-> \E k \in 1..Len(span.tags) :
                      span.tags[k].key = "error" /\ Truthy(span.tags[k].value),
     children  |-> << >>]

\* Line 144: the dict comprehension: a later span of the same spanID
\* replaces the node of an earlier one.
SpansDict(t) ==
    [id \in SpanIdsOf(t) |->
        CreateSpanDict(t, t.spans[SetMax({i \in 1..Len(t.spans) : t.spans[i].spanID = id})])]

\* Lines 146-148: every reference of every span, spans in order and each
\* span's references in order, with the span that holds it.
RECURSIVE RefsFrom(_, _)
RefsFrom(t, i) ==
    IF i > Len(t.spans) THEN << >>
    ELSE [k \in 1..Len(t.spans[i].references) |->
              [child |-> t.spans[i].spanID, ref |-> t.spans[i].references[k]]]
         \o RefsFrom(t, i + 1)

\* Lines 149-151: each CHILD_OF reference appends the span's node to the
\* children of the node the reference names. ch maps a spanID to the spanIDs
\* of its node's children list (the nodes are shared objects).
RECURSIVE LinkFrom(_, _, _)
LinkFrom(refs, k, ch) ==
    IF k > Len(refs) THEN ch
    ELSE IF refs[k].ref.refType = "CHILD_OF"
         THEN LinkFrom(refs, k + 1,
                       [ch EXCEPT ![refs[k].ref.spanID] = Append(@, refs[k].child)])
         ELSE LinkFrom(refs, k + 1, ch)

Link(t) == LinkFrom(RefsFrom(t, 1), 1, [id \in SpanIdsOf(t) |-> << >>])

\* RootSpan as the first span that has no CHILD_OF reference (the first span
\* when every span has one).
RootWithoutParent(t) ==
    LET free == {i \in 1..Len(t.spans) :
                    \A k \in 1..Len(t.spans[i].references) :
                        t.spans[i].references[k].refType # "CHILD_OF"}
    IN  t.spans[IF free = {} THEN 1 ELSE SetMin(free)].spanID

\* Line 153: min over the dict's values, in the order the keys were first
\* inserted: the first node of the least startTime.
RootSpan(t) ==
    LET d == SpansDict(t)
        least == SetMin({d[id].startTime : id \in DOMAIN d})
        firstAt(id) == SetMin({i \in 1..Len(t.spans) : t.spans[i].spanID = id})
        at == SetMin({firstAt(id) : id \in {x \in DOMAIN d : d[x].startTime = least}})
    IN  t.spans[at].spanID

\* The spanIDs of the nodes sort_children_recursively visits from `from`.
RECURSIVE Visited(_, _)
Visited(ch, seen) ==
    LET more == seen \cup UNION {{ch[id][k] : k \in 1..Len(ch[id])} : id \in seen}
    IN  IF more = seen THEN seen ELSE Visited(ch, more)

\* Whether the recursion of lines 155-160 comes back to a node it is in:
\* it then never returns, and the interpreter raises RecursionError.
Recurs(ch, root) ==
    \E id \in Visited(ch, {root}) :
        id \in Visited(ch, {ch[id][k] : k \in 1..Len(ch[id])})

\* InsertByStart of a sort that is not stable: x goes before the elements of
\* an equal key.
InsertBeforeEqual(sorted, x, d) ==
    LET p == Cardinality({i \in 1..Len(sorted) : d[sorted[i]].startTime < d[x].startTime})
    IN  SubSeq(sorted, 1, p) \o <<x>> \o SubSeq(sorted, p + 1, Len(sorted))

\* Line 157: list.sort(key=startTime), which is stable: x goes after the
\* elements of the sorted list whose key is not greater.
InsertByStart(sorted, x, d) ==
    LET p == Cardinality({i \in 1..Len(sorted) : d[sorted[i]].startTime <= d[x].startTime})
    IN  SubSeq(sorted, 1, p) \o <<x>> \o SubSeq(sorted, p + 1, Len(sorted))

RECURSIVE SortByStart(_, _, _, _)
SortByStart(list, k, sorted, d) ==
    IF k > Len(list) THEN sorted
    ELSE SortByStart(list, k + 1, InsertByStart(sorted, list[k], d), d)

\* Lines 155-162: the children list of every node visited from the root is
\* sorted; the other nodes keep theirs.
SortChildrenRecursively(ch, root, d) ==
    [id \in DOMAIN ch |->
        IF id \in Visited(ch, {root}) THEN SortByStart(ch[id], 1, << >>, d) ELSE ch[id]]

Raised(what) == [status |-> what, traceID |-> "", rootSpan |-> NoSpan, children |-> << >>]

\* Lines 125-167. The result is the root's spanID with the children lists of
\* the nodes (a node's fields are those of SpansDict).
GenerateTraceJson(t) ==
    IF \E i \in 1..Len(t.spans) : t.spans[i].processID \notin DOMAIN t.processes
    THEN Raised("KeyError")
    ELSE IF \E i \in 1..Len(t.spans) : \E k \in 1..Len(t.spans[i].references) :
                /\ t.spans[i].references[k].refType = "CHILD_OF"
                /\ t.spans[i].references[k].spanID \notin SpanIdsOf(t)
    THEN Raised("KeyError")
    ELSE IF Len(t.spans) = 0
    THEN Raised("ValueError")
    ELSE IF Recurs(Link(t), RootSpan(t))
    THEN Raised("RecursionError")
    ELSE [status   |-> "ok",
          traceID  |-> t.traceID,
          rootSpan |-> RootSpan(t),
          children |-> SortChildrenRecursively(Link(t), RootSpan(t), SpansDict(t))]

NoResult == Raised("none")

\* The call returns the tree.
GenerateReturns ==
    /\ tpc = "call"
    /\ GenerateTraceJson(trace).status = "ok"
    /\ result' = GenerateTraceJson(trace)
    /\ tpc' = "returned"
    /\ UNCHANGED <<trace, procVars, pipeVars>>

\* The call raises.
GenerateRaises ==
    /\ tpc = "call"
    /\ GenerateTraceJson(trace).status # "ok"
    /\ result' = GenerateTraceJson(trace)
    /\ tpc' = "raised"
    /\ UNCHANGED <<trace, procVars, pipeVars>>

TreeOff ==
    /\ tpc = "off"
    /\ trace = [traceID |-> "t1", spans |-> << >>, processes |-> Processes]
    /\ result = NoResult

\* The largest number of traces in the document of process_all_traces.
MaxDocs == 2

\* The traces the document is made of: a single span; a parent and its child;
\* a span whose process is not in the mapping; a CHILD_OF reference to a
\* spanID the trace does not have; no span; a span that is its own parent.
TreeShapes ==
    {TreeTrace(1, <<0>>, << << >> >>, Processes),
     TreeTrace(2, <<0, 1>>, << << >>, <<[refType |-> "CHILD_OF", spanID |-> 1]>> >>, Processes),
     TreeTrace(2, <<0, 1>>, << << >>, <<[refType |-> "CHILD_OF", spanID |-> 1]>> >>,
               [p \in {"p1"} |-> [serviceName |-> "svcA"]]),
     TreeTrace(1, <<0>>, << <<[refType |-> "CHILD_OF", spanID |-> 0]>> >>, Processes),
     TreeTrace(0, << >>, << >>, Processes),
     TreeTrace(1, <<0>>, << <<[refType |-> "CHILD_OF", spanID |-> 1]>> >>, Processes)}

TreeItems == {[t EXCEPT !.traceID = id] : t \in TreeShapes, id \in TraceIds}

\* Line 176: a new output_dir holds no file.
NoArtifacts == [id \in TraceIds |-> NoResult]

\* Lines 182-186: the tree of the item is built and dumped to
\* <traceID>.json, replacing what that file held.
WriteArtifact ==
    /\ ppc = "loop"
    /\ dpos <= Len(docs)
    /\ GenerateTraceJson(docs[dpos]).status = "ok"
    /\ artifacts' = [artifacts EXCEPT ![docs[dpos].traceID] = GenerateTraceJson(docs[dpos])]
    /\ written' = Append(written, dpos)
    /\ dpos' = dpos + 1
    /\ UNCHANGED <<ppc, docs, raisedBy, tpc, trace, result, pipeVars>>

\* ProcRaises with the failure caught and the loop going on.
ProcSkips ==
    /\ ppc = "loop"
    /\ dpos <= Len(docs)
    /\ GenerateTraceJson(docs[dpos]).status # "ok"
    /\ dpos' = dpos + 1
    /\ UNCHANGED <<ppc, docs, artifacts, written, raisedBy, tpc, trace, result, pipeVars>>

\* Line 182: generate_trace_json raises; nothing in process_all_traces
\* catches it, so the call ends there, before line 185 opens the file.
ProcRaises ==
    /\ ppc = "loop"
    /\ dpos <= Len(docs)
    /\ GenerateTraceJson(docs[dpos]).status # "ok"
    /\ ppc' = "raised"
    /\ raisedBy' = GenerateTraceJson(docs[dpos]).status
    /\ UNCHANGED <<docs, dpos, artifacts, written, tpc, trace, result, pipeVars>>

\* Line 191: the items are exhausted.
ProcCompletes ==
    /\ ppc = "loop"
    /\ dpos > Len(docs)
    /\ ppc' = "done"
    /\ UNCHANGED <<docs, dpos, artifacts, written, raisedBy, tpc, trace, result, pipeVars>>

ProcOff ==
    /\ ppc = "off"
    /\ docs = << >>
    /\ dpos = 1
    /\ artifacts = NoArtifacts
    /\ written = << >>
    /\ raisedBy = "none"

Init == PipeInit /\ TreeOff /\ ProcOff

Spec == Init /\ [][Next]_vars

TreeInit ==
    /\ PipeInit
    /\ ProcOff
    /\ tpc = "call"
    /\ \E n \in 0..MaxSpans :
         \E times \in [1..n -> Times], refs \in RefAssign(n, n, MaxRefs),
            procs \in ProcessMaps :
              trace = TreeTrace(n, times, refs, procs)
    /\ result = NoResult

TreeNext == GenerateReturns \/ GenerateRaises

TreeSpec == TreeInit /\ [][TreeNext]_vars

\* Lines 176-180: process_all_traces on a new output_dir.
ProcInit ==
    /\ PipeInit
    /\ TreeOff
    /\ ppc = "loop"
    /\ docs \in SeqsUpTo(TreeItems, MaxDocs)
    /\ dpos = 1
    /\ artifacts = NoArtifacts
    /\ written = << >>
    /\ raisedBy = "none"

ProcNext == WriteArtifact \/ ProcRaises \/ ProcCompletes

ProcSpec == ProcInit /\ [][ProcNext]_vars

-----------------------------------------------------------------------------
(* Properties of the tabular pipeline *)

\* The set a cache file holds (none when it is absent or does not unpickle).
PersistedIds(file) == IF file.state = "ok" THEN file.ids ELSE {}

RowIds(rows) == {rows[i].traceID : i \in 1..Len(rows)}

InputIds(f) == {f[i].traceID : i \in 1..Len(f)}

HasDuplicateRows(rows) ==
    \E i, j \in 1..Len(rows) : i < j /\ rows[i].traceID = rows[j].traceID

RECURSIVE IsSubSeq(_, _)
IsSubSeq(s, t) ==
    IF s = << >> THEN TRUE
    ELSE IF t = << >> THEN FALSE
    ELSE IF Head(s) = Head(t) THEN IsSubSeq(Tail(s), Tail(t))
    ELSE IsSubSeq(s, Tail(t))

\* A step of a run (the start of one included), as opposed to a step of the
\* environment between two runs.
RunStep == pc = "loop" \/ pc' = "loop"

\* The item of the running input that a row of the output was made from: the
\* first one with the row's traceID.
SourceOf(id) == input[SetMin({k \in 1..Len(input) : input[k].traceID = id})]

AnyErrorTag(spans) ==
    \E si \in 1..Len(spans) : \E k \in 1..Len(spans[si].tags) :
        spans[si].tags[k].key = "error" /\ Truthy(spans[si].tags[k].value)

\* C1: when a run completes right after a completed run on the same input
\* and the same target, the output holds as many rows as after the first.
C1_RerunKeepsRowCount ==
    (pc = "done" /\ relation = "rerun") => Len(outFile) = prevCount

\* C2: no traceID occurs in two rows of the output, in any state that
\* completed and aborted runs reach.
C2_UniqueTraceIDs ==
    ~HasDuplicateRows(outFile)

\* C2 witness: a completed run on an input that holds a traceID twice has
\* written that trace's row.
C2_Witness ==
    /\ pc = "done"
    /\ ledgerAtStart.state = "absent"
    /\ Len(input) = 2
    /\ input[1].traceID = input[2].traceID
    /\ Len(input[2].spans) > 0
    /\ input[1].traceID \in RowIds(outFile)

\* C3: a run writes no row for a traceID of the cache it loaded, and a run
\* that completes has written rows for exactly the traceIDs of its input that
\* were not in that cache.
C3_LedgerGatesRows ==
    /\ RowIds(outFile) \cap PersistedIds(ledgerAtStart) = {}
    /\ pc = "done" => RowIds(outFile) = InputIds(input) \ PersistedIds(ledgerAtStart)

\* C3 witness: a completed run whose input held a trace of the loaded cache
\* and a trace that was not in it.
C3_Witness ==
    /\ pc = "done"
    /\ ledgerAtStart.state = "ok"
    /\ InputIds(input) \cap ledgerAtStart.ids # {}
    /\ outFile # << >>

\* C4: every row of the output is still in it, in the same relative order,
\* after any step.
C4_AppendOnly ==
    [][IsSubSeq(outFile, outFile')]_vars

\* C5: no step of a run makes the persisted set smaller, and the set a
\* completed run persists holds the loaded set and the traceID of every row
\* the run wrote.
C5_LedgerNeverShrinks ==
    [][RunStep =>
        /\ PersistedIds(ledgerFile) \subseteq PersistedIds(ledgerFile')
        /\ pc' = "done" =>
             /\ ledgerFile'.state = "ok"
             /\ RowIds(outFile') \cup PersistedIds(ledgerAtStart') \subseteq ledgerFile'.ids
      ]_vars

\* C5 witness: a completed run that loaded a non-empty cache and wrote a row.
C5_Witness ==
    /\ pc = "done"
    /\ ledgerAtStart.state = "ok"
    /\ ledgerAtStart.ids # {}
    /\ outFile # << >>
    /\ ledgerFile.ids # ledgerAtStart.ids

\* C6: the step that aborts a run leaves the cache file as it was when the
\* run started and the output as it was; the cache is written only by the
\* step that ends a run whose input is exhausted, which writes no row; a
\* completed run has written it once.
C6_AbortKeepsLedger ==
    [][RunStep =>
        /\ pc' = "aborted" =>
             /\ ledgerFile' = ledgerAtStart'
             /\ persists' = 0
             /\ outFile' = outFile
        /\ pc' = "loop" => ledgerFile' = ledgerAtStart' /\ persists' = 0
        /\ persists' # persists /\ pc = "loop" =>
             /\ pc' = "done"
             /\ pos > Len(input)
             /\ outFile' = outFile
        /\ pc' = "done" => persists' = 1
      ]_vars

\* C6 witness: a run aborted on a trace without spans after it wrote a row,
\* with traceIDs in memory that the cache file does not hold.
C6_Witness ==
    /\ pc = "aborted"
    /\ ledgerEvent = "none"
    /\ input[pos].traceID # NoTraceID
    /\ outFile # << >>
    /\ ledgerAtStart.state = "ok"
    /\ traceIDs # PersistedIds(ledgerFile)

\* C7: a run whose input holds a trace without spans (and no malformed
\* item) does not abort, and when it is done the cache and the header are
\* written.
C7_EmptyTraceSkipped ==
    ( /\ pc \in {"loop", "done", "aborted"}
      /\ \E k \in 1..Len(input) : Len(input[k].spans) = 0
      /\ \A k \in 1..Len(input) : input[k].traceID # NoTraceID )
    => /\ pc # "aborted"
       /\ pc = "done" => ledgerFile.state = "ok" /\ headerFile = "written"

\* C8: the rpcErrors field of every row is truthy exactly when some span of
\* the row's trace has a tag with key "error" and a truthy value.
C8_RpcErrorsIffAnyErrorTag ==
    pc \in {"loop", "done", "aborted"} =>
        \A i \in 1..Len(outFile) :
            Truthy(outFile[i].rpcErrors)
                <=> AnyErrorTag(SourceOf(outFile[i].traceID).spans)

\* C9: a run that starts with the cache file absent or corrupt and completes
\* has written a row for every traceID of its input; and when it is the
\* second of two completed runs on the same input, with the cache file
\* deleted in between and rows written by the first, the output holds a
\* traceID in more than one row.
C9_ColdStartDuplicates ==
    pc = "done" =>
        /\ ledgerAtStart.state # "ok" => RowIds(outFile) = InputIds(input)
        /\ (relation = "coldRerun" /\ prevCount > 0) => HasDuplicateRows(outFile)

\* C15: the processes field of the rows of one trace is the same in two
\* runs: the rows that a rerun on the same input writes have the processes
\* field that the previous run's rows of the same traceID had.
C15_ProcessesDeterministic ==
    relation \in {"rerun", "coldRerun"} =>
        \A i \in 1..Len(outFile), j \in 1..Len(prevOut) :
            outFile[i].traceID = prevOut[j].traceID
                => outFile[i].processes = prevOut[j].processes

\* C16: the operation field of every row is the operationName of the first
\* span of the row's trace.
C16_OperationIsFirstSpan ==
    pc \in {"loop", "done", "aborted"} =>
        \A i \in 1..Len(outFile) :
            outFile[i].operation = SourceOf(outFile[i].traceID).spans[1].operationName

\* C16 witness: the second row of a run, of a trace whose first span is not
\* its earliest, after a row of another operation.
C16_Witness ==
    /\ pc = "done"
    /\ Len(outFile) = 2
    /\ outFile[1].operation # outFile[2].operation
    /\ LET spans == SourceOf(outFile[2].traceID).spans
       IN  /\ spans[1].startTime > StartTrace(spans)
           /\ \E k \in 2..Len(spans) : spans[k].operationName # spans[1].operationName

\* C18: when a run has completed (and nothing touched the cache file since),
\* the cache holds the set the run loaded united with the traceIDs of the
\* run's input, and the traceID of every row of the run is in it.
C18_LedgerIsLoadedPlusInput ==
    (pc = "done" /\ ledgerEvent = "none") =>
        /\ ledgerFile.state = "ok"
        /\ ledgerFile.ids = PersistedIds(ledgerAtStart) \cup InputIds(input)
        /\ RowIds(outFile) \subseteq ledgerFile.ids

\* C18 witness: a completed run that loaded a non-empty cache and read a
\* trace of it and a trace that was not in it.
C18_Witness ==
    /\ pc = "done"
    /\ ledgerEvent = "none"
    /\ PersistedIds(ledgerAtStart) # {}
    /\ InputIds(input) \cap PersistedIds(ledgerAtStart) # {}
    /\ InputIds(input) \ PersistedIds(ledgerAtStart) # {}
    /\ PersistedIds(ledgerAtStart) \ InputIds(input) = {}

-----------------------------------------------------------------------------
(* Properties of the span-tree builder *)

\* The spans of t that have a CHILD_OF reference to the span `parent`.
ChildrenByReference(t, parent) ==
    {t.spans[i].spanID : i \in
        {j \in 1..Len(t.spans) : \E k \in 1..Len(t.spans[j].references) :
            /\ t.spans[j].references[k].refType = "CHILD_OF"
            /\ t.spans[j].references[k].spanID = parent}}

\* The spans of t reachable from the spans of `seen` via CHILD_OF edges.
RECURSIVE ReachableByReference(_, _)
ReachableByReference(t, seen) ==
    LET more == seen \cup UNION {ChildrenByReference(t, id) : id \in seen}
    IN  IF more = seen THEN seen ELSE ReachableByReference(t, more)

\* The nodes of a returned tree as json.dump writes them: a node, then the
\* nodes of each child in the order of its children list.
RECURSIVE Serialized(_, _)
RECURSIVE SerializedList(_, _, _)
Serialized(ch, id) == <<id>> \o SerializedList(ch, ch[id], 1)
SerializedList(ch, list, k) ==
    IF k > Len(list) THEN << >>
    ELSE Serialized(ch, list[k]) \o SerializedList(ch, list, k + 1)

\* C10: the serialized tree of a trace of N spans has as many nodes as there
\* are spans reachable from the root via CHILD_OF edges, at most N, and no
\* span is a node of it twice.
C10_NodeCountIsReachable ==
    tpc = "returned" =>
        LET nodes == Serialized(result.children, result.rootSpan)
        IN  /\ Len(nodes) = Cardinality(ReachableByReference(trace, {result.rootSpan}))
            /\ Len(nodes) <= Len(trace.spans)
            /\ \A i, j \in 1..Len(nodes) : i # j => nodes[i] # nodes[j]

\* The targets of the CHILD_OF references of a span, in the list's order.
ChildOfTargets(span) ==
    LET refs == SelectSeq(span.references, LAMBDA r : r.refType = "CHILD_OF")
    IN  [k \in 1..Len(refs) |-> refs[k].spanID]

\* The elements of a list.
Elements(list) == {list[k] : k \in 1..Len(list)}

\* C11: in a returned tree, a span with several CHILD_OF references is in the
\* children list of the node its last CHILD_OF reference names and in no
\* other children list.
C11_LastChildOfWins ==
    tpc = "returned" =>
        \A i \in 1..Len(trace.spans) :
            LET targets == ChildOfTargets(trace.spans[i])
            IN  Len(targets) >= 2 =>
                  \A id \in DOMAIN result.children :
                      trace.spans[i].spanID \in Elements(result.children[id])
                          <=> id = targets[Len(targets)]

\* The nodes of a returned tree: the root and the nodes of the children
\* lists under it.
TreeNodes == Visited(result.children, {result.rootSpan})

StartOf(t, id) == SpansDict(t)[id].startTime

PositionOf(t, id) == SetMin({i \in 1..Len(t.spans) : t.spans[i].spanID = id})

C12_TieWitness ==
    /\ tpc = "returned"
    /\ Len(result.children[result.rootSpan]) = 2
    /\ result.children[result.rootSpan][1] < result.children[result.rootSpan][2]
    /\ StartOf(trace, result.children[result.rootSpan][1])
           = StartOf(trace, result.children[result.rootSpan][2])

\* Whether every reference of t names a span of t and every span's
\* processID is in the process mapping.
Resolves(t) ==
    /\ \A i \in 1..Len(t.spans) : t.spans[i].processID \in DOMAIN t.processes
    /\ \A i \in 1..Len(t.spans) : \A k \in 1..Len(t.spans[i].references) :
           t.spans[i].references[k].spanID \in SpanIdsOf(t)

\* Whether a span reachable from `root` via CHILD_OF edges is reachable from
\* itself.
CycleFrom(t, root) ==
    \E id \in ReachableByReference(t, {root}) :
        id \in ReachableByReference(t, ChildrenByReference(t, id))

LeastStart(t) == SetMin({t.spans[i].startTime : i \in 1..Len(t.spans)})

\* C13: the root of a returned tree is a span of the least startTime of the
\* trace, the nodes of the tree are the spans reachable from it via CHILD_OF
\* edges, and a call raises only for an unresolved reference or process, a
\* trace without spans or a cycle under the root: never for spans that are
\* not reachable.
C13_RootIsEarliest ==
    /\ tpc = "returned" =>
         /\ StartOf(trace, result.rootSpan) = LeastStart(trace)
         /\ TreeNodes = ReachableByReference(trace, {result.rootSpan})
    /\ tpc = "raised" =>
         \/ ~Resolves(trace)
         \/ Len(trace.spans) = 0
         \/ \E i \in 1..Len(trace.spans) :
               /\ trace.spans[i].startTime = LeastStart(trace)
               /\ CycleFrom(trace, trace.spans[i].spanID)

\* C13 witness: the root carries a CHILD_OF reference to another span, which
\* is not in the tree.
C13_Witness ==
    /\ tpc = "returned"
    /\ Len(ChildOfTargets(trace.spans[result.rootSpan])) >= 1
    /\ TreeNodes # SpanIdsOf(trace)

\* C17: a call on a trace with at least one span whose references and
\* processes all resolve returns a tree rooted at a span of the least
\* startTime.
C17_ReturnsOnCycles ==
    (tpc # "call" /\ Len(trace.spans) >= 1 /\ Resolves(trace)) =>
        /\ tpc = "returned"
        /\ StartOf(trace, result.rootSpan) = LeastStart(trace)

-----------------------------------------------------------------------------
(* Properties of process_all_traces *)

\* A span of t names a process that t's mapping does not have.
MissingProcess(t) ==
    \E i \in 1..Len(t.spans) : t.spans[i].processID \notin DOMAIN t.processes

\* A span of t has a CHILD_OF reference to a spanID that no span of t has.
DanglingChildOf(t) ==
    \E i \in 1..Len(t.spans) : \E r \in Elements(ChildOfTargets(t.spans[i])) :
        \A j \in 1..Len(t.spans) : t.spans[j].spanID # r

\* Every span of t resolves, t has a span and no span under the first of the
\* earliest ones is its own ancestor.
Buildable(t) ==
    /\ ~MissingProcess(t)
    /\ ~DanglingChildOf(t)
    /\ Len(t.spans) > 0
    /\ \A i \in 1..Len(t.spans) :
          (/\ t.spans[i].startTime = LeastStart(t)
           /\ \A j \in 1..(i - 1) : t.spans[j].startTime > LeastStart(t))
              => ~CycleFrom(t, t.spans[i].spanID)

\* What output_dir holds after the trees of items 1..k were dumped in order.
RECURSIVE ArtifactsAfter(_, _)
ArtifactsAfter(d, k) ==
    IF k = 0 THEN [id \in TraceIds |-> NoResult]
    ELSE [ArtifactsAfter(d, k - 1) EXCEPT ![d[k].traceID] = GenerateTraceJson(d[k])]

\* C14: when the run has ended, an item with a span of an unknown process
\* (the first item that does not build) has no artifact written, and every
\* buildable item after it has its artifact written.
C14_MissingProcessIsolated ==
    ppc \in {"done", "raised"} =>
        \A k \in 1..Len(docs) :
            (MissingProcess(docs[k]) /\ \A j \in 1..(k - 1) : Buildable(docs[j])) =>
                /\ k \notin Elements(written)
                /\ \A j \in (k + 1)..Len(docs) :
                       Buildable(docs[j]) => j \in Elements(written)

\* C19: when item k has a dangling CHILD_OF reference and the items before
\* it build, the run never passes item k and never completes; no artifact is
\* written for item k or a later item; and once the call has raised,
\* output_dir holds the artifacts of items 1..k-1, all written, and no other.
C19_DanglingStopsRun ==
    \A k \in 1..Len(docs) :
        (DanglingChildOf(docs[k]) /\ \A j \in 1..(k - 1) : Buildable(docs[j])) =>
            /\ dpos <= k
            /\ ppc # "done"
            /\ \A j \in Elements(written) : j < k
            /\ ppc = "raised" =>
                  /\ dpos = k
                  /\ raisedBy = "KeyError"
                  /\ written = [j \in 1..(k - 1) |-> j]
                  /\ artifacts = ArtifactsAfter(docs, k - 1)

\* C19 witness: the call has raised on a dangling reference in the second
\* item, after it wrote the artifact of the first.
C19_Witness ==
    /\ ppc = "raised"
    /\ Len(docs) >= 2
    /\ dpos = 2
    /\ DanglingChildOf(docs[2])
    /\ written = <<1>>
    /\ artifacts[docs[1].traceID].status = "ok"
    /\ docs[2].traceID # docs[1].traceID

====
